---- MODULE Spec2Model ----
(***************************************************************************)
(* Model of github-social (src/main.rs): main reads GITHUB_TOKEN, builds a *)
(* github_rs client, issues one followers request, matches the response    *)
(* and prints one line per follower.  parse_page is modelled as a pure     *)
(* operator and exercised under its own specification SpecParsePage.       *)
(***************************************************************************)
EXTENDS Integers, Sequences, FiniteSets, TLC

VARIABLES pc, env, token, client, response, followers, stdout, stderr,
          exitCode, requests, url, page, ppState

vars == <<pc, env, token, client, response, followers, stdout, stderr,
          exitCode, requests, url, page, ppState>>

mainVars == <<pc, env, token, client, response, followers, stdout, stderr,
              exitCode, requests>>

ppVars == <<url, page, ppState>>

(***************************************************************************)
(* Bounds and input sets                                                   *)
(***************************************************************************)
MaxFollowers == 2

Tokens == {"abc123", "bad-token"}

\* The User records a response can carry; only login is read by main, the
\* other seventeen fields are carried and unused (id stands for them).
Users == {[login |-> "alice", id |-> 1], [login |-> "bob", id |-> 2]}

StatusCodes == {200, 404, 500}

HeaderMaps == {"{}", "{link}"}

TransportErrors == {"connection refused", "timed out"}

RECURSIVE SeqsUpTo(_, _)
SeqsUpTo(S, n) ==
  IF n = 0 THEN {<<>>}
  ELSE LET shorter == SeqsUpTo(S, n - 1)
       IN  shorter \cup {Append(s, x) : s \in {t \in shorter : Len(t) = n - 1}, x \in S}

(***************************************************************************)
(* Values                                                                  *)
(***************************************************************************)
\* Result<String, VarError> of env::var("GITHUB_TOKEN")
EnvStates ==
  {[kind |-> "NotPresent", val |-> ""], [kind |-> "NotUnicode", val |-> ""]}
    \cup {[kind |-> "Ok", val |-> t] : t \in Tokens}

NoResponse ==
  [ok |-> FALSE, headers |-> "", status |-> 0, some |-> FALSE, json |-> <<>>,
   err |-> ""]

\* Result<(HeaderMap, StatusCode, Option<Vec<User>>), Error> of execute
Responses ==
  {[ok |-> TRUE, headers |-> h, status |-> s, some |-> TRUE, json |-> j, err |-> ""] :
       h \in HeaderMaps, s \in StatusCodes, j \in SeqsUpTo(Users, MaxFollowers)}
    \cup
  {[ok |-> TRUE, headers |-> h, status |-> s, some |-> FALSE, json |-> <<>>, err |-> ""] :
       h \in HeaderMaps, s \in StatusCodes}
    \cup
  {[ok |-> FALSE, headers |-> "", status |-> 0, some |-> FALSE, json |-> <<>>, err |-> e] :
       e \in TransportErrors}

\* exit status of a process whose main thread panicked
PanicExitCode == 101

Running == -1

\* Display of std::env::VarError
VarErrorDisplay(kind) ==
  IF kind = "NotPresent" THEN "environment variable not found"
  ELSE "environment variable was not valid unicode"

EnvErrLineNoName(kind) ==
  [kind |-> "env_err", parts |-> <<VarErrorDisplay(kind)>>]

\* println!("{}: {}", err, "GITHUB_TOKEN")
EnvErrLine(kind) ==
  [kind |-> "env_err", parts |-> <<VarErrorDisplay(kind), ": ", "GITHUB_TOKEN">>]

\* println!("{:?}", _headers)
HeadersLine(h) == [kind |-> "headers", parts |-> <<h>>]

\* println!("{}", e)
ErrorLine(e) == [kind |-> "error", parts |-> <<e>>]

\* println!("{}", follower.login)
FollowerLine(f) == [kind |-> "follower", parts |-> <<f.login>>]

\* the message a panicking unwrap/expect writes to the standard error stream
PanicLine(msg) == [kind |-> "panic", parts |-> <<msg>>]

(***************************************************************************)
(* main                                                                    *)
(***************************************************************************)
Init ==
  /\ pc = "read_token"
  /\ env \in EnvStates
  /\ token = ""
  /\ client = "none"
  /\ response = NoResponse
  /\ followers = <<>>
  /\ stdout = <<>>
  /\ stderr = <<>>
  /\ exitCode = Running
  /\ requests = 0
  /\ url = <<>>
  /\ page = 0
  /\ ppState = "idle"

ReadTokenNoExit ==
  /\ pc = "read_token"
  /\ IF env.kind = "Ok"
       THEN /\ token' = env.val
            /\ UNCHANGED stdout
       ELSE /\ stdout' = Append(stdout, EnvErrLine(env.kind))
            /\ token' = ""
  /\ pc' = "new_client"
  /\ UNCHANGED <<env, client, response, followers, stderr, exitCode, requests, ppVars>>

\* let token = match env::var("GITHUB_TOKEN") { Ok(token) => token,
\*   Err(err) => { println!(...); process::exit(1); } };
ReadToken ==
  /\ pc = "read_token"
  /\ IF env.kind = "Ok"
       THEN /\ token' = env.val
            /\ pc' = "new_client"
            /\ UNCHANGED <<stdout, exitCode>>
       ELSE /\ stdout' = Append(stdout, EnvErrLine(env.kind))
            /\ exitCode' = 1
            /\ pc' = "exited"
            /\ UNCHANGED token
  /\ UNCHANGED <<env, client, response, followers, stderr, requests, ppVars>>

\* let client = Github::new(token).unwrap();
\* Github::new returns a Result; on Err the unwrap panics.
NewClient ==
  /\ pc = "new_client"
  /\ \E built \in BOOLEAN :
       IF built
         THEN /\ client' = "ok"
              /\ pc' = "execute"
              /\ UNCHANGED <<stderr, exitCode>>
         ELSE /\ client' = "failed"
              /\ stderr' = Append(stderr, PanicLine("called Result::unwrap() on an Err value"))
              /\ exitCode' = PanicExitCode
              /\ pc' = "exited"
  /\ UNCHANGED <<env, token, response, followers, stdout, requests, ppVars>>

ExecuteWithMe ==
  /\ pc = "execute"
  /\ \E r \in Responses :
       /\ response' = r
       /\ requests' = requests + 2
       /\ pc' = "match"
  /\ UNCHANGED <<env, token, client, followers, stdout, stderr, exitCode, ppVars>>

\* let response = client.get().user().followers().execute::<Vec<User>>();
Execute ==
  /\ pc = "execute"
  /\ \E r \in Responses :
       /\ response' = r
       /\ requests' = requests + 1
       /\ pc' = "match"
  /\ UNCHANGED <<env, token, client, followers, stdout, stderr, exitCode, ppVars>>

Outcome(out, err, exit, fs) ==
  [out |-> out, err |-> err, exit |-> exit, followers |-> fs]

MatchOutcomeErrSilent(r) ==
  IF r.ok
    THEN IF r.some
           THEN Outcome(<<HeadersLine(r.headers)>>, <<>>, Running, r.json)
           ELSE Outcome(<<HeadersLine(r.headers)>>,
                        <<PanicLine("Error while parsing JSON")>>, PanicExitCode, <<>>)
    ELSE Outcome(<<>>, <<>>, 1, <<>>)

MatchOutcomeCheckStatus(r) ==
  IF r.ok
    THEN IF r.status >= 400
           THEN Outcome(<<ErrorLine(ToString(r.status))>>, <<>>, 1, <<>>)
           ELSE IF r.some
                  THEN Outcome(<<HeadersLine(r.headers)>>, <<>>, Running, r.json)
                  ELSE Outcome(<<HeadersLine(r.headers)>>,
                               <<PanicLine("Error while parsing JSON")>>, PanicExitCode, <<>>)
    ELSE Outcome(<<ErrorLine(r.err)>>, <<>>, 1, <<>>)

\* let followers = match response {
\*   Ok((_headers, _status, json)) => { println!("{:?}", _headers);
\*                                      json.expect("Error while parsing JSON") }
\*   Err(e) => { println!("{}", e); process::exit(1); } };
\* what the match writes, the exit code it ends with (Running: none) and the
\* vector it binds to followers
MatchOutcome(r) ==
  IF r.ok
    THEN IF r.some
           THEN Outcome(<<HeadersLine(r.headers)>>, <<>>, Running, r.json)
           ELSE Outcome(<<HeadersLine(r.headers)>>,
                        <<PanicLine("Error while parsing JSON")>>, PanicExitCode, <<>>)
    ELSE Outcome(<<ErrorLine(r.err)>>, <<>>, 1, <<>>)

MatchResponse ==
  /\ pc = "match"
  /\ LET o == MatchOutcome(response)
     IN  /\ stdout' = stdout \o o.out
         /\ stderr' = stderr \o o.err
         /\ exitCode' = o.exit
         /\ followers' = o.followers
         /\ pc' = IF o.exit = Running THEN "loop" ELSE "exited"
  /\ UNCHANGED <<env, token, client, response, requests, ppVars>>

\* for follower in followers { println!("{}", follower.login); }
PrintFollower ==
  /\ pc = "loop"
  /\ followers # <<>>
  /\ stdout' = Append(stdout, FollowerLine(Head(followers)))
  /\ followers' = Tail(followers)
  /\ UNCHANGED <<pc, env, token, client, response, stderr, exitCode, requests, ppVars>>

\* main returns after the loop: the process exits with status 0
ReturnMain ==
  /\ pc = "loop"
  /\ followers = <<>>
  /\ exitCode' = 0
  /\ pc' = "exited"
  /\ UNCHANGED <<env, token, client, response, followers, stdout, stderr, requests, ppVars>>

Next ==
  \/ ReadToken
  \/ NewClient
  \/ Execute
  \/ MatchResponse
  \/ PrintFollower
  \/ ReturnMain

Spec == Init /\ [][Next]_vars

(***************************************************************************)
(* parse_page                                                              *)
(***************************************************************************)
I32Max == 2147483647

AsciiDigits == {"0", "1", "2", "3", "4", "5", "6", "7", "8", "9"}

\* a decimal digit outside ASCII (ARABIC-INDIC DIGIT THREE): \d of the regex
\* crate is Unicode-aware and matches it, i32's FromStr does not accept it
UnicodeDigits == {"U+0663"}

IsDigit(c) == c \in AsciiDigits \cup UnicodeDigits

DigitVal(c) ==
  CASE c = "0" -> 0 [] c = "1" -> 1 [] c = "2" -> 2 [] c = "3" -> 3
    [] c = "4" -> 4 [] c = "5" -> 5 [] c = "6" -> 6 [] c = "7" -> 7
    [] c = "8" -> 8 [] c = "9" -> 9

PageEq == <<"p", "a", "g", "e", "=">>

\* the regex [?&]page=(\d+) matches starting at position i of u
MatchAt(u, i) ==
  /\ i + 6 <= Len(u)
  /\ u[i] \in {"?", "&"}
  /\ SubSeq(u, i + 1, i + 5) = PageEq
  /\ IsDigit(u[i + 6])

\* start of the leftmost match, 0 when there is none (re.captures)
FirstMatch(u) ==
  IF \E i \in 1..Len(u) : MatchAt(u, i)
    THEN CHOOSE i \in 1..Len(u) :
           MatchAt(u, i) /\ \A j \in 1..(i - 1) : ~MatchAt(u, j)
    ELSE 0

\* last position of the maximal digit run starting at position j (\d+ is greedy)
RECURSIVE DigitRunEnd(_, _)
DigitRunEnd(u, j) ==
  IF j + 1 <= Len(u) /\ IsDigit(u[j + 1]) THEN DigitRunEnd(u, j + 1) ELSE j

\* cap[1]
Capture(u) ==
  LET i == FirstMatch(u) IN SubSeq(u, i + 6, DigitRunEnd(u, i + 6))

\* str::parse::<i32> on a string without sign: Err on an empty string, on a
\* character that is not an ASCII digit, and on overflow of the checked
\* multiply-and-add (acc * 10 + d > I32Max, tested without leaving 32 bits)
ParseI32(s) ==
  LET RECURSIVE Go(_, _)
      Go(k, acc) ==
        IF k > Len(s) THEN [ok |-> TRUE, val |-> acc]
        ELSE IF s[k] \notin AsciiDigits THEN [ok |-> FALSE, val |-> 0]
        ELSE IF acc > (I32Max - DigitVal(s[k])) \div 10 THEN [ok |-> FALSE, val |-> 0]
        ELSE Go(k + 1, acc * 10 + DigitVal(s[k]))
  IN  IF s = <<>> THEN [ok |-> FALSE, val |-> 0] ELSE Go(1, 0)

\* fn parse_page(url: &str) -> i32: the value returned, or a panic of the
\* unwrap on the parse result
parse_page(u) ==
  IF FirstMatch(u) = 0
    THEN [panicked |-> FALSE, val |-> 1]
    ELSE LET r == ParseI32(Capture(u))
         IN  IF r.ok THEN [panicked |-> FALSE, val |-> r.val]
             ELSE [panicked |-> TRUE, val |-> 0]

\* input urls: prefix, separator, key, digit run, suffix
UrlPrefixes ==
  {<<>>, <<"x">>, <<"?", "p", "a", "g", "e", "=", "x">>,
   <<"&", "p", "a", "g", "e", "=", "5", "/">>}

UrlSeparators == {<<"?">>, <<"&">>, <<"#">>}

UrlKeys == {PageEq, <<"P", "a", "g", "e", "=">>, <<"p", "e", "r", "_">> \o PageEq}

UrlDigitRuns ==
  {<<>>, <<"0">>, <<"7">>, <<"4", "2">>, <<"0", "0", "7">>,
   <<"2", "1", "4", "7", "4", "8", "3", "6", "4", "7">>,
   <<"2", "1", "4", "7", "4", "8", "3", "6", "4", "8">>,
   <<"0", "9", "9", "9", "9", "9", "9", "9", "9", "9", "9">>,
   <<"U+0663">>}

UrlSuffixes == {<<>>, <<"x">>, <<"&", "p", "a", "g", "e", "=", "9">>}

Urls ==
  {p \o s \o k \o d \o x :
     p \in UrlPrefixes, s \in UrlSeparators, k \in UrlKeys,
     d \in UrlDigitRuns, x \in UrlSuffixes}

InitParsePage ==
  /\ pc = "read_token"
  /\ env = [kind |-> "NotPresent", val |-> ""]
  /\ token = ""
  /\ client = "none"
  /\ response = NoResponse
  /\ followers = <<>>
  /\ stdout = <<>>
  /\ stderr = <<>>
  /\ exitCode = Running
  /\ requests = 0
  /\ url \in Urls
  /\ page = 0
  /\ ppState = "input"

\* one call parse_page(url)
CallParsePage ==
  /\ ppState = "input"
  /\ LET r == parse_page(url)
     IN  /\ ppState' = IF r.panicked THEN "panicked" ELSE "returned"
         /\ page' = r.val
  /\ UNCHANGED <<url, mainVars>>

NextParsePage == CallParsePage

SpecParsePage == InitParsePage /\ [][NextParsePage]_vars

(***************************************************************************)
(* Properties                                                              *)
(***************************************************************************)
NoFollowerLines == \A i \in 1..Len(stdout) : stdout[i].kind # "follower"

NamesVariable(line) == \E k \in 1..Len(line.parts) : line.parts[k] = "GITHUB_TOKEN"

\* C1: when GITHUB_TOKEN is not set, no client is constructed and no request is
\* issued, and the process ends with exit code 1 after printing one message
\* that names GITHUB_TOKEN.
C1_MissingTokenExits ==
  env.kind = "NotPresent" =>
    /\ client = "none"
    /\ requests = 0
    /\ pc \in {"read_token", "exited"}
    /\ pc = "exited" =>
         /\ exitCode = 1
         /\ Len(stdout) = 1
         /\ stdout[1].kind = "env_err"
         /\ NamesVariable(stdout[1])

C1_Witness == env.kind = "NotPresent" /\ pc = "exited" /\ exitCode = 1

\* C2: a response carrying N follower records ends with exit code 0
\* and exactly N lines on standard output, the i-th holding the login of the
\* i-th record; for N = 0 the output is empty.
C2_ExactlyNLines ==
  (pc = "exited" /\ response.ok /\ response.some) =>
    /\ exitCode = 0
    /\ Len(stdout) = Len(response.json)
    /\ \A i \in 1..Len(stdout) :
         stdout[i].kind = "follower" /\ stdout[i].parts = <<response.json[i].login>>

\* C3: a response received at transport level whose body is absent or could
\* not be parsed ends the process with exit code 1 and the fixed
\* parsing-error message on standard output, whatever the status code.
C3_AbsentBodyExits1 ==
  (pc = "exited" /\ response.ok /\ ~response.some) =>
    /\ exitCode = 1
    /\ \E i \in 1..Len(stdout) : stdout[i].parts = <<"Error while parsing JSON">>

\* C4: when execute returns Err, the process prints the error's description,
\* exits with code 1 and prints no follower line.
C4_TransportErrorExits1 ==
  (pc = "exited" /\ requests > 0 /\ ~response.ok) =>
    /\ exitCode = 1
    /\ stdout = <<[kind |-> "error", parts |-> <<response.err>>]>>
    /\ NoFollowerLines

C4_Witness ==
  /\ pc = "exited"
  /\ requests > 0
  /\ ~response.ok
  /\ response.err \in TransportErrors
  /\ Len(stdout) = 1

\* C5: the exit code is 0 on success and 1 on every failure, a failed client
\* construction included; no other exit code is produced.
C5_ExitCodeZeroOrOne ==
  pc = "exited" =>
    /\ exitCode \in {0, 1}
    /\ client = "failed" => exitCode = 1

\* C6: on every path nothing is written to the standard error stream.
C6_NothingOnStderr == stderr = <<>>

\* C7: at most one request is issued; exactly one once a client has been
\* constructed and the request step is passed; none without a client; the
\* count never changes after the response, failed or not.
C7_OneRequest ==
  /\ requests <= 1
  /\ client # "ok" => requests = 0
  /\ (client = "ok" /\ pc \in {"match", "loop", "exited"}) => requests = 1
  /\ (client = "ok" /\ pc = "execute") => requests = 0

C7_Witness ==
  /\ pc = "exited"
  /\ client = "ok"
  /\ requests = 1
  /\ exitCode = 1

\* the same response with status code 200
WithStatusOk(r) == [r EXCEPT !.status = 200]

\* C8: the status code does not influence the outcome: what a run has printed
\* and its exit code are those determined by the response with its status
\* code replaced by 200.
C8_StatusIgnored ==
  (pc \in {"loop", "exited"} /\ response.ok) =>
    LET o == MatchOutcome(WithStatusOk(response))
        printed == Len(stdout) - Len(o.out)
    IN  /\ SubSeq(stdout, 1, Len(o.out)) = o.out
        /\ stderr = o.err
        /\ printed \in 0..Len(o.followers)
        /\ \A i \in 1..printed :
             stdout[Len(o.out) + i].parts = <<o.followers[i].login>>
        /\ pc = "exited" =>
             /\ printed = Len(o.followers)
             /\ exitCode = IF o.exit = Running THEN 0 ELSE o.exit
        /\ pc = "loop" => o.exit = Running /\ exitCode = Running

C8_Witness ==
  /\ pc = "exited"
  /\ response.ok
  /\ response.status >= 400
  /\ response.some
  /\ response.json # <<>>
  /\ exitCode = 0

\* a run that has failed: credential missing, client not constructed, or the
\* request answered by an error or by a response without a parsed body
Failed ==
  \/ env.kind # "Ok"
  \/ client = "failed"
  \/ requests > 0 /\ (~response.ok \/ ~response.some)

\* C9: the steps happen in the order credential, client, request, response,
\* deserialize, print: a client exists only once the credential was read, a
\* request only once the client exists, and a follower line only once the
\* response was matched with a parsed body; a failed run has printed no
\* follower line.
C9_PrintOnlyAfterParse ==
  /\ client # "none" => env.kind = "Ok" /\ token = env.val
  /\ requests > 0 => client = "ok"
  /\ ~NoFollowerLines =>
       /\ requests = 1
       /\ response.ok
       /\ response.some
       /\ pc \in {"loop", "exited"}
  /\ Failed => NoFollowerLines
  /\ (pc = "exited" /\ exitCode # 0) => NoFollowerLines

C9_Witness ==
  /\ pc = "exited"
  /\ response.ok
  /\ ~response.some
  /\ NoFollowerLines
  /\ exitCode # 0

\* decimal value of a run of at most nine ASCII digits
RECURSIVE DecimalValue(_)
DecimalValue(s) ==
  IF s = <<>> THEN 0
  ELSE DecimalValue(SubSeq(s, 1, Len(s) - 1)) * 10 + DigitVal(s[Len(s)])

\* C10: parse_page never aborts: it returns 1 when the url has no match of
\* [?&]page= followed by a digit, and otherwise the decimal value of the digit
\* run after the first match (compared here for runs of up to nine ASCII
\* digits), also when the run denotes more than 2^31 - 1.
C10_ParsePageTotal ==
  ppState # "input" =>
    /\ ppState = "returned"
    /\ FirstMatch(url) = 0 => page = 1
    /\ (/\ FirstMatch(url) # 0
        /\ Len(Capture(url)) <= 9
        /\ \A k \in 1..Len(Capture(url)) : Capture(url)[k] \in AsciiDigits)
         => page = DecimalValue(Capture(url))

====
